---- MODULE Spec2Model ----
(***************************************************************************)
(* Model of components/simulation-interface.tsx: the SimulationInterface   *)
(* React component (its useState fields, the fetch started on mount, the   *)
(* two onChange handlers and the handleSimulation click handler) and the   *)
(* functions it calls: calculatePolynomialRegression,                      *)
(* calculateMovingAverage, generatePredictionLine.                         *)
(*                                                                         *)
(* Numbers.  A JavaScript number is a record [k, v]: k = "num" with the    *)
(* value v, or k = "nan", "pinf", "ninf" (v = 0).  Temperatures are exact  *)
(* rationals held as integer multiples of 1/600 degree C (Deg(260) is      *)
(* 26.0 C); every feed value is a multiple of 0.1 C, so the divisions by   *)
(* the window length (1..5) and by 4 are exact.  IEEE-754 rounding of the  *)
(* temperature arithmetic is not modelled.                                 *)
(*                                                                         *)
(* Text.  A string is a sequence of one-character strings, so that         *)
(* parseInt and Number.prototype.toString are computed, not assumed.       *)
(*                                                                         *)
(* Not modelled: the wording of result.details beyond its first two lines, *)
(* the equation and R2 strings, chart styling, the Supabase client.        *)
(***************************************************************************)
EXTENDS Integers, Sequences, FiniteSets

VARIABLES
  data,            \* useState<TemperatureData[]>([])
  fit,             \* what regression.polynomial returns for the points of data
  selectedModel,   \* useState('polynomial')
  yearToPredict,   \* useState('2030'), a text
  result,          \* useState(null): <<>> is null, <<r>> is the object r
  loading,         \* useState(false)
  predictionLine,  \* useState({ years: [], temps: [] })
  isLoading,       \* useState(true)
  error,           \* useState(null): "null" or the message
  pc,              \* "idle", or "gpl": handleSimulation is inside generatePredictionLine's loop
  frame,           \* the locals of the running handleSimulation / generatePredictionLine
  calls            \* the functions the most recent handleSimulation invoked

vars == <<data, fit, selectedModel, yearToPredict, result, loading,
          predictionLine, isLoading, error, pc, frame, calls>>

-----------------------------------------------------------------------------
(* Bounds of the model *)

\* longest series the feed delivers (the window of calculateMovingAverage is 5)
MaxLen == 6
\* longest series the feed delivers in the interactive specification
UiMaxLen == 2
\* the furthest target year, counted from 2025
MaxAhead == 13
\* stands for the largest length of a JavaScript array (2^32 - 1)
ArrayLimit == 8

(* Program constants *)

MinYear == 2024
baseYear == 1900
numPoints == 5
WindowSize == 5
Intervals == 4

-----------------------------------------------------------------------------
(* JavaScript numbers *)

Num(n) == [k |-> "num", v |-> n]
NaN == [k |-> "nan", v |-> 0]
PosInf == [k |-> "pinf", v |-> 0]
NegInf == [k |-> "ninf", v |-> 0]

IsNum(a) == a.k = "num"

\* a < b
Lt(a, b) ==
  IF a.k = "nan" \/ b.k = "nan" THEN FALSE
  ELSE IF a.k = "num" /\ b.k = "num" THEN a.v < b.v
  ELSE IF a.k = "ninf" THEN b.k # "ninf"
  ELSE IF a.k = "pinf" THEN FALSE
  ELSE b.k = "pinf"

\* a > b
Gt(a, b) == Lt(b, a)

\* a <= b
Le(a, b) ==
  IF a.k = "nan" \/ b.k = "nan" THEN FALSE
  ELSE ~Lt(b, a)

\* a + n and a - n for a finite n
AddInt(a, n) == IF IsNum(a) THEN Num(a.v + n) ELSE a

\* a + b on finite numbers and NaN
Add(a, b) == IF IsNum(a) /\ IsNum(b) THEN Num(a.v + b.v) ELSE NaN

\* a - b on finite numbers and NaN
Sub(a, b) == IF IsNum(a) /\ IsNum(b) THEN Num(a.v - b.v) ELSE NaN

\* Math.ceil(a / d) for a finite integer a and d > 0
CeilDiv(a, d) == IF IsNum(a) THEN Num(-((-a.v) \div d)) ELSE NaN

\* degrees C given in tenths, in the model's unit of 1/600 C
Deg(tenths) == tenths * 60

-----------------------------------------------------------------------------
(* Text: parseInt and toString *)

Digits == <<"0", "1", "2", "3", "4", "5", "6", "7", "8", "9">>

IsDigit(c) == \E d \in 1..10 : Digits[d] = c

DigitValue(c) == (CHOOSE d \in 1..10 : Digits[d] = c) - 1

\* the longest prefix of s made of digits
RECURSIVE DigitPrefix(_)
DigitPrefix(s) ==
  IF s = <<>> \/ ~IsDigit(Head(s)) THEN <<>>
  ELSE <<Head(s)>> \o DigitPrefix(Tail(s))

RECURSIVE DigitsValue(_, _)
DigitsValue(s, acc) ==
  IF s = <<>> THEN acc
  ELSE DigitsValue(Tail(s), 10 * acc + DigitValue(Head(s)))

\* parseInt(s): an optional sign, then the leading digits; NaN without a digit
parseInt(s) ==
  LET neg == s # <<>> /\ Head(s) = "-"
      body == IF s # <<>> /\ Head(s) \in {"-", "+"} THEN Tail(s) ELSE s
      ds == DigitPrefix(body)
  IN IF ds = <<>> THEN NaN
     ELSE Num(IF neg THEN -DigitsValue(ds, 0) ELSE DigitsValue(ds, 0))

RECURSIVE NatToString(_)
NatToString(n) ==
  IF n < 10 THEN <<Digits[n + 1]>>
  ELSE NatToString(n \div 10) \o <<Digits[(n % 10) + 1]>>

\* Number.prototype.toString of an integer or NaN
toString(a) ==
  IF a.k = "nan" THEN <<"N", "a", "N">>
  ELSE IF a.v < 0 THEN <<"-">> \o NatToString(-a.v)
  ELSE NatToString(a.v)

-----------------------------------------------------------------------------
(* The feed: rows of philippines_temperature_trends, ascending by year *)

\* (annual_mean, five_year_smooth) of a row, in tenths of a degree
Recs == {<<245, 260>>, <<275, 280>>}

\* the year of the last row of a non-empty feed
LastYears == {2022, 2025}

\* the rows with the values rs, one per consecutive year, the last one in year last
Rows(last, rs) ==
  [i \in 1..Len(rs) |->
     [year |-> toString(Num(last - Len(rs) + i)),
      annual_mean |-> Deg(rs[i][1]),
      five_year_smooth |-> Deg(rs[i][2])]]

SeriesUpTo(n) ==
  {Rows(last, rs) : last \in LastYears, rs \in UNION {[1..m -> Recs] : m \in 0..n}}

\* the series 26.0, 26.2, 26.4, 26.6, 26.8 over 2018..2022
ExampleSeries ==
  Rows(2022, <<<<260, 260>>, <<262, 262>>, <<264, 264>>, <<266, 266>>, <<268, 268>>>>)

\* regression.polynomial's Result for the points of a non-empty series: finite
\* coefficients of y = a x^2 + b x + c (x = year - baseYear, y in 1/600 C), or,
\* from a singular system, NaN or infinite coefficients
Fits ==
  { [kind |-> "finite", a |-> 0, b |-> 0, c |-> Deg(260)],
    [kind |-> "finite", a |-> 10, b |-> -2400, c |-> 159600],
    [kind |-> "nan", a |-> 0, b |-> 0, c |-> 0],
    [kind |-> "inf", a |-> 0, b |-> 0, c |-> 0] }

\* no regression has been computed (the series is empty)
NoFit == [kind |-> "nan", a |-> 0, b |-> 0, c |-> 0]

\* what the user can type into the year input
YearTexts(ys) ==
  {toString(Num(y)) : y \in ys} \cup {<<>>, toString(Num(2026)) \o <<".", "5">>}

Models == {"polynomial", "moving-average"}

-----------------------------------------------------------------------------
(* Messages *)

InvalidYearError == "Please select a year from 2024 onwards for predictions."
OutOfRangeNote == "Note: The predicted temperature is outside our historical observations."
CalculationError == "Calculation error occurred"
FetchError == "Failed to load temperature data. Please try again later."

-----------------------------------------------------------------------------
(* The prediction functions *)

\* result.predict(x)[1] of the regression library
Predict(f, x) ==
  IF ~IsNum(x) \/ f.kind = "nan" THEN NaN
  ELSE IF f.kind = "inf" THEN PosInf
  ELSE Num(f.c + f.b * x.v + f.a * x.v * x.v)

\* calculatePolynomialRegression without its guard for the empty series: the
\* library fits no points and predicts NaN
calculatePolynomialRegressionUnguarded(targetYear) ==
  IF Len(data) = 0 THEN [prediction |-> NaN]
  ELSE [prediction |-> Predict(fit, AddInt(parseInt(targetYear), -baseYear))]

calculatePolynomialRegression(targetYear) ==
  IF Len(data) = 0 THEN [prediction |-> Num(0)]
  ELSE LET normalizedYear == AddInt(parseInt(targetYear), -baseYear)
       IN [prediction |-> Predict(fit, normalizedYear)]

\* s.slice(-n)
SliceLast(s, n) ==
  IF Len(s) <= n THEN s ELSE SubSeq(s, Len(s) - n + 1, Len(s))

RECURSIVE SumSmooth(_)
SumSmooth(s) ==
  IF s = <<>> THEN 0 ELSE s[1].five_year_smooth + SumSmooth(Tail(s))

calculateMovingAverage(targetYear) ==
  IF Len(data) = 0 THEN [prediction |-> Num(0), avgTemp |-> 0, yearlyChange |-> 0]
  ELSE LET recentData == SliceLast(data, WindowSize)
           avgTemp == SumSmooth(recentData) \div Len(recentData)
           yearlyChange ==
             (recentData[Len(recentData)].five_year_smooth
                - recentData[1].five_year_smooth) \div Intervals
           lastYear == parseInt(data[Len(data)].year)
           yearsAhead == Sub(parseInt(targetYear), lastYear)
       IN [prediction |->
             IF IsNum(yearsAhead) THEN Num(avgTemp + yearlyChange * yearsAhead.v)
             ELSE NaN,
           avgTemp |-> avgTemp,
           yearlyChange |-> yearlyChange]

\* the predictor handleSimulation and generatePredictionLine pick for a model
Predictor(model, targetYear) ==
  IF model = "polynomial" THEN calculatePolynomialRegression(targetYear).prediction
  ELSE calculateMovingAverage(targetYear).prediction

PredictorName(model) ==
  IF model = "polynomial" THEN "calculatePolynomialRegression"
  ELSE "calculateMovingAverage"

-----------------------------------------------------------------------------
(* handleSimulation's validation *)

\* IsInvalidYear with the limit off by one
IsInvalidYearOffByOne(inputYear) == Lt(inputYear, Num(MinYear - 1))

\* inputYear < 2024
IsInvalidYear(inputYear) == Lt(inputYear, Num(MinYear))

RECURSIVE MaxOf(_)
MaxOf(s) ==
  IF Len(s) = 1 THEN s[1]
  ELSE LET m == MaxOf(Tail(s)) IN IF s[1] > m THEN s[1] ELSE m

RECURSIVE MinOf(_)
MinOf(s) ==
  IF Len(s) = 1 THEN s[1]
  ELSE LET m == MinOf(Tail(s)) IN IF s[1] < m THEN s[1] ELSE m

\* Math.max(...s): -Infinity without arguments
MathMax(s) == IF s = <<>> THEN NegInf ELSE Num(MaxOf(s))

\* Math.min(...s): Infinity without arguments
MathMin(s) == IF s = <<>> THEN PosInf ELSE Num(MinOf(s))

\* data.map(d => d.annual_mean)
AnnualMeans(d) == [i \in 1..Len(d) |-> d[i].annual_mean]

\* margin = 1.5
margin == Deg(15)

allowedMin(d) == AddInt(MathMin(AnnualMeans(d)), -margin)

allowedMax(d) == AddInt(MathMax(AnnualMeans(d)), margin)

\* OutOfRange with the comparisons made inclusive
OutOfRangeInclusive(prediction, d) ==
  Le(prediction, allowedMin(d)) \/ Le(allowedMax(d), prediction)

\* prediction < allowedMin || prediction > allowedMax
OutOfRange(prediction, d) ==
  Lt(prediction, allowedMin(d)) \/ Gt(prediction, allowedMax(d))

\* the first two lines of details
Details(model, targetText) ==
  <<IF model = "polynomial" THEN "Prediction Model: Polynomial Regression (2nd degree)"
    ELSE "Prediction Model: 5-Year Moving Average",
    <<"Target Year: ", targetText>>>>

InvalidYearResult ==
  [prediction |-> Num(0),
   details |-> <<"Invalid year selected">>,
   error |-> InvalidYearError]

CalculationErrorResult ==
  [prediction |-> Num(0),
   details |-> <<"Error in calculation. Please try again.">>,
   error |-> CalculationError]

-----------------------------------------------------------------------------
(* generatePredictionLine *)

NoFrame ==
  [prediction |-> Num(0), details |-> <<>>, years |-> <<>>, temps |-> <<>>,
   yearStep |-> Num(0), year |-> Num(0)]

\* YearStep rounding down (Math.floor) instead of up
YearStepFloor(predictionYear, lastDataYear) ==
  LET span == Sub(predictionYear, lastDataYear)
  IN IF IsNum(span) THEN Num(span.v \div numPoints) ELSE NaN

\* Math.ceil((predictionYear - lastDataYear) / numPoints)
YearStep(predictionYear, lastDataYear) ==
  CeilDiv(Sub(predictionYear, lastDataYear), numPoints)

\* the locals of generatePredictionLine when its loop is first tested
EnterLoop(prediction, details) ==
  LET lastDataYear == parseInt(data[Len(data)].year)
      predictionYear == parseInt(yearToPredict)
      yearStep == YearStep(predictionYear, lastDataYear)
  IN [prediction |-> prediction,
      details |-> details,
      years |-> <<toString(lastDataYear)>>,
      temps |-> <<Num(data[Len(data)].five_year_smooth)>>,
      yearStep |-> yearStep,
      year |-> Add(lastDataYear, yearStep)]

\* year <= predictionYear
LoopTest == Le(frame.year, parseInt(yearToPredict))

\* years[years.length - 1] !== predictionYear.toString()
FinalPointMissing(years, predictionYear) ==
  years[Len(years)] # toString(predictionYear)

\* ReturnedLine without the block that ensures the final point
ReturnedLineAsStepped == [years |-> frame.years, temps |-> frame.temps]

\* the object generatePredictionLine returns
ReturnedLine ==
  LET predictionYear == parseInt(yearToPredict) IN
  IF FinalPointMissing(frame.years, predictionYear)
  THEN [years |-> Append(frame.years, toString(predictionYear)),
        temps |-> Append(frame.temps, frame.prediction)]
  ELSE [years |-> frame.years, temps |-> frame.temps]

-----------------------------------------------------------------------------
(* chartData *)

\* s.slice(1)
Slice1(s) == IF s = <<>> THEN <<>> ELSE Tail(s)

\* the points of the 'Prediction Trend' dataset that follow the last observed
\* one: ...predictionLine.temps.slice(1)
ChartProjection == Slice1(predictionLine.temps)

\* the labels the projection adds to the chart: ...predictionLine.years.slice(1)
ChartProjectionLabels == Slice1(predictionLine.years)

-----------------------------------------------------------------------------
(* Actions *)

\* fetchData: the query fails
FetchFailed ==
  /\ pc = "idle"
  /\ isLoading
  /\ error' = FetchError
  /\ isLoading' = FALSE
  /\ UNCHANGED <<data, fit, selectedModel, yearToPredict, result, loading,
                 predictionLine, pc, frame, calls>>

\* fetchData: the query returns the rows tempData
FetchSucceeded ==
  /\ pc = "idle"
  /\ isLoading
  /\ \E tempData \in SeriesUpTo(UiMaxLen) :
       /\ data' = tempData
       /\ IF Len(tempData) = 0 THEN fit' = NoFit ELSE fit' \in Fits
  /\ isLoading' = FALSE
  /\ UNCHANGED <<selectedModel, yearToPredict, result, loading, predictionLine,
                 error, pc, frame, calls>>

\* the model select's onChange
SetSelectedModel ==
  /\ pc = "idle"
  /\ \E m \in Models : selectedModel' = m
  /\ UNCHANGED <<data, fit, yearToPredict, result, loading, predictionLine,
                 isLoading, error, pc, frame, calls>>

\* the years the user types in the interactive specification
UiYears == {2023, 2024, 2025, 2027, 2030}

\* the year input's onChange
SetYearToPredict ==
  /\ pc = "idle"
  /\ \E t \in YearTexts(UiYears) : yearToPredict' = t
  /\ UNCHANGED <<data, fit, selectedModel, result, loading, predictionLine,
                 isLoading, error, pc, frame, calls>>

\* handleSimulation, from the click up to generatePredictionLine's loop (or to
\* its return, when it returns earlier)
HandleSimulation ==
  /\ pc = "idle"
  /\ ~loading
  /\ UNCHANGED <<data, fit, selectedModel, yearToPredict, isLoading, error>>
  /\ IF IsInvalidYear(parseInt(yearToPredict))
     THEN /\ result' = <<InvalidYearResult>>
          /\ loading' = FALSE
          /\ calls' = {}
          /\ UNCHANGED <<predictionLine, pc, frame>>
     ELSE LET prediction == Predictor(selectedModel, yearToPredict)
              details == Details(selectedModel, yearToPredict)
          IN IF OutOfRange(prediction, data)
             THEN /\ result' = <<[prediction |-> prediction,
                                  details |-> details,
                                  error |-> OutOfRangeNote]>>
                  /\ loading' = FALSE
                  /\ calls' = {PredictorName(selectedModel)}
                  /\ UNCHANGED <<predictionLine, pc, frame>>
             ELSE IF Len(data) = 0
             THEN \* data[data.length - 1].year throws a TypeError, which is caught
                  /\ result' = <<CalculationErrorResult>>
                  /\ loading' = FALSE
                  /\ calls' = {PredictorName(selectedModel), "generatePredictionLine"}
                  /\ UNCHANGED <<predictionLine, pc, frame>>
             ELSE /\ pc' = "gpl"
                  /\ loading' = TRUE
                  /\ frame' = EnterLoop(prediction, details)
                  /\ calls' = {PredictorName(selectedModel), "generatePredictionLine"}
                  /\ UNCHANGED <<predictionLine, result>>

\* one turn of generatePredictionLine's loop
GplStep ==
  /\ pc = "gpl"
  /\ LoopTest
  /\ Len(frame.years) < ArrayLimit
  /\ LET currentYear == toString(frame.year) IN
     frame' = [frame EXCEPT
                 !.years = Append(@, currentYear),
                 !.temps = Append(@, Predictor(selectedModel, currentYear)),
                 !.year = Add(@, frame.yearStep)]
  /\ UNCHANGED <<data, fit, selectedModel, yearToPredict, result, loading,
                 predictionLine, isLoading, error, pc, calls>>

\* the loop never ends and years.push fails at the array length limit with a
\* RangeError, which handleSimulation catches (the other outcome, that the
\* handler never returns, is the behaviour that stays in pc = "gpl")
GplRangeError ==
  /\ pc = "gpl"
  /\ LoopTest
  /\ Len(frame.years) >= ArrayLimit
  /\ result' = <<CalculationErrorResult>>
  /\ loading' = FALSE
  /\ pc' = "idle"
  /\ frame' = NoFrame
  /\ UNCHANGED <<data, fit, selectedModel, yearToPredict, predictionLine,
                 isLoading, error, calls>>

\* the loop ends: generatePredictionLine returns and handleSimulation finishes
GplReturn ==
  /\ pc = "gpl"
  /\ ~LoopTest
  /\ predictionLine' = ReturnedLine
  /\ result' = <<[prediction |-> frame.prediction,
                  details |-> frame.details,
                  error |-> "undefined"]>>
  /\ loading' = FALSE
  /\ pc' = "idle"
  /\ frame' = NoFrame
  /\ UNCHANGED <<data, fit, selectedModel, yearToPredict, isLoading, error, calls>>

-----------------------------------------------------------------------------
(* Specifications *)

\* the component after its first render, the fetch of the mount effect pending
Init ==
  /\ data = <<>>
  /\ fit = NoFit
  /\ selectedModel = "polynomial"
  /\ yearToPredict = <<"2", "0", "3", "0">>
  /\ result = <<>>
  /\ loading = FALSE
  /\ predictionLine = [years |-> <<>>, temps |-> <<>>]
  /\ isLoading = TRUE
  /\ error = "null"
  /\ pc = "idle"
  /\ frame = NoFrame
  /\ calls = {}

Next ==
  \/ FetchFailed
  \/ FetchSucceeded
  \/ SetSelectedModel
  \/ SetYearToPredict
  \/ HandleSimulation
  \/ GplStep
  \/ GplRangeError
  \/ GplReturn

Spec == Init /\ [][Next]_vars

\* the target years of the function-level specification
FnYears == {2020, 2023} \cup (MinYear..(2025 + MaxAhead))

\* the component with any series loaded, any model and any year text chosen
InitFn ==
  /\ data \in SeriesUpTo(MaxLen) \cup {ExampleSeries}
  /\ IF Len(data) = 0 THEN fit = NoFit ELSE fit \in Fits
  /\ selectedModel \in Models
  /\ yearToPredict \in YearTexts(FnYears)
  /\ result = <<>>
  /\ loading = FALSE
  /\ predictionLine = [years |-> <<>>, temps |-> <<>>]
  /\ isLoading = FALSE
  /\ error = "null"
  /\ pc = "idle"
  /\ frame = NoFrame
  /\ calls = {}

\* runs of handleSimulation alone
NextFn ==
  \/ HandleSimulation
  \/ GplStep
  \/ GplRangeError
  \/ GplReturn

SpecFn == InitFn /\ [][NextFn]_vars

-----------------------------------------------------------------------------
(* Properties *)

\* the target year and the last observed year, as numbers
TargetYear == parseInt(yearToPredict)
LastObservedYear == parseInt(data[Len(data)].year)

\* handleSimulation has finished with a prediction and a trend line
RunSucceeded ==
  pc = "idle" /\ result # <<>> /\ result[1].error = "undefined"

\* handleSimulation has finished with the out-of-range note
RunWarned ==
  pc = "idle" /\ result # <<>> /\ result[1].error = OutOfRangeNote

\* C1: whenever generatePredictionLine has returned (SpecFn: for the series,
\* model and year text of the state), the line's first point is the last
\* observed year with the last record's five_year_smooth, and its last point
\* is the target year's label with the prediction.
C1_LineEndpoints ==
  RunSucceeded =>
    LET n == Len(predictionLine.years) IN
    /\ n >= 1
    /\ Len(predictionLine.temps) = n
    /\ parseInt(predictionLine.years[1]) = LastObservedYear
    /\ predictionLine.temps[1] = Num(data[Len(data)].five_year_smooth)
    /\ predictionLine.years[n] = toString(TargetYear)
    /\ predictionLine.temps[n] = result[1].prediction

\* a returned line of 6 points whose last step is shorter than its first: the
\* stepping did not land on the target year and the final point was appended
C1_Witness ==
  /\ RunSucceeded
  /\ Len(predictionLine.years) = 6
  /\ parseInt(predictionLine.years[6]).v - parseInt(predictionLine.years[5]).v
       < parseInt(predictionLine.years[2]).v - parseInt(predictionLine.years[1]).v

\* C10: for a target year after the last observed year, the returned line has
\* strictly increasing years, none beyond the target year, and 2 to 6 points.
C10_LineShape ==
  (RunSucceeded /\ Gt(TargetYear, LastObservedYear)) =>
    LET ys == predictionLine.years
        n == Len(ys)
    IN /\ n >= 2
       /\ n <= 6
       /\ \A i \in 1..n : Le(parseInt(ys[i]), TargetYear)
       /\ \A i \in 1..(n - 1) : Lt(parseInt(ys[i]), parseInt(ys[i + 1]))

\* a line of 6 points of the moving-average model whose stepping landed on the
\* target year (5 stepped points, nothing appended)
C10_Witness ==
  /\ RunSucceeded
  /\ selectedModel = "moving-average"
  /\ Gt(TargetYear, LastObservedYear)
  /\ Len(predictionLine.years) = 6
  /\ parseInt(predictionLine.years[6]).v - parseInt(predictionLine.years[5]).v
       = parseInt(predictionLine.years[2]).v - parseInt(predictionLine.years[1]).v

\* the prediction p is below every annual_mean - 1.5
BelowBand(p) ==
  \/ p.k = "ninf"
  \/ IsNum(p) /\ \A i \in 1..Len(data) : p.v < data[i].annual_mean - Deg(15)

\* the prediction p is above every annual_mean + 1.5
AboveBand(p) ==
  \/ p.k = "pinf"
  \/ IsNum(p) /\ \A i \in 1..Len(data) : p.v > data[i].annual_mean + Deg(15)

\* C5: for a non-empty series, handleSimulation ends with the out-of-range
\* note exactly when the prediction is below min(annual_mean) - 1.5 or above
\* max(annual_mean) + 1.5, and goes on to the trend line only when it is not.
C5_WarningIffOutOfBand ==
  Len(data) > 0 =>
    /\ (pc = "gpl" => ~BelowBand(frame.prediction) /\ ~AboveBand(frame.prediction))
    /\ (RunSucceeded \/ RunWarned) =>
         /\ result[1].prediction = Predictor(selectedModel, yearToPredict)
         /\ (RunWarned <=>
               BelowBand(result[1].prediction) \/ AboveBand(result[1].prediction))

\* a run that ended without the note on a prediction exactly 1.5 above the
\* largest annual_mean
C5_Witness ==
  /\ RunSucceeded
  /\ Len(data) > 0
  /\ \E i \in 1..Len(data) :
       /\ result[1].prediction = Num(data[i].annual_mean + Deg(15))
       /\ \A j \in 1..Len(data) : data[j].annual_mean <= data[i].annual_mean

\* the text in the year input is a year below 2024
YearBelowMin == IsNum(TargetYear) /\ TargetYear.v < 2024

\* the text in the year input is a year from 2024 on
YearFromMin == IsNum(TargetYear) /\ TargetYear.v >= 2024

\* C8: with an empty series both predictors return 0 for every year text, and
\* handleSimulation with a year from 2024 on never enters
\* generatePredictionLine and never ends in the calculation error: it ends
\* with prediction 0.
C8_EmptySeriesDegrades ==
  Len(data) = 0 =>
    /\ \A t \in YearTexts(FnYears) :
         /\ calculatePolynomialRegression(t).prediction = Num(0)
         /\ calculateMovingAverage(t).prediction = Num(0)
    /\ pc # "gpl"
    /\ "generatePredictionLine" \notin calls
    /\ (YearFromMin /\ result # <<>>) =>
         /\ result[1].error # CalculationError
         /\ result[1].prediction = Num(0)

\* handleSimulation has run on the empty series with the moving-average model
\* and a year from 2024 on
C8_Witness ==
  /\ Len(data) = 0
  /\ YearFromMin
  /\ selectedModel = "moving-average"
  /\ result # <<>>
  /\ calls = {"calculateMovingAverage"}

\* C6: a click with a year below 2024 in the input sets the invalid-year
\* result (prediction 0, an error message) and loading to false, invokes
\* neither predictor nor generatePredictionLine, and leaves data and
\* predictionLine as they were.
C6_InvalidYearRejected ==
  [][(HandleSimulation /\ YearBelowMin) =>
       /\ result'[1].prediction = Num(0)
       /\ result'[1].error \notin {"undefined", ""}
       /\ result'[1].error = InvalidYearError
       /\ loading' = FALSE
       /\ calls' = {}
       /\ pc' = "idle"
       /\ data' = data
       /\ predictionLine' = predictionLine]_vars

\* a rejected click on a loaded series while an earlier run's trend line is held
C6_Witness ==
  /\ YearBelowMin
  /\ result = <<InvalidYearResult>>
  /\ calls = {}
  /\ Len(data) > 0
  /\ predictionLine.years # <<>>

\* handleSimulation has finished a run of the moving-average model that
\* computed a prediction for a year
MovingAverageRan ==
  /\ RunSucceeded \/ RunWarned
  /\ selectedModel = "moving-average"
  /\ IsNum(TargetYear)

\* C4 (as claimed): for a series of at least 2 records the moving-average
\* prediction is avgTemp + yearlyChange * (targetYear - lastObservedYear) with
\* avgTemp the mean of five_year_smooth over the last min(5, n) records and
\* yearlyChange = (window.last - window.first) / (windowSize - 1).
C4_Claimed ==
  (MovingAverageRan /\ Len(data) >= 2) =>
    LET n == IF Len(data) < 5 THEN Len(data) ELSE 5
        window == SubSeq(data, Len(data) - n + 1, Len(data))
        avgTemp == SumSmooth(window) \div n
        yearlyChange ==
          (window[n].five_year_smooth - window[1].five_year_smooth) \div (n - 1)
    IN result[1].prediction
         = Num(avgTemp + yearlyChange * (TargetYear.v - LastObservedYear.v))

\* C4's worked example: the series 26.0 .. 26.8 over 2018..2022 and the year
\* 2030 give avgTemp 26.4, yearlyChange 0.2 and the prediction 28.0.
C4_WorkedExample ==
  (data = ExampleSeries /\ TargetYear = Num(2030)) =>
    calculateMovingAverage(yearToPredict)
      = [prediction |-> Num(Deg(280)), avgTemp |-> Deg(264), yearlyChange |-> Deg(2)]

\* C2 (as claimed): when the target year equals the last observed year the
\* stepping loop of generatePredictionLine executes zero times and the line
\* returned has exactly one point.
C2_Claimed ==
  (Len(data) > 0 /\ TargetYear = LastObservedYear) =>
    /\ pc = "gpl" => Len(frame.years) = 1
    /\ RunSucceeded => Len(predictionLine.years) = 1

\* C3 (as claimed): when the most recent run ended with the out-of-range note,
\* no trend line is held for display.
C3_Claimed ==
  RunWarned => predictionLine.years = <<>> /\ ChartProjection = <<>>

\* C9 (as claimed): while the fetch is pending (isLoading), no simulation has
\* produced a result.
C9_Claimed == isLoading => result = <<>>

\* C7 (as claimed): once the fetch has ended without records, an error state
\* is reported and a simulation run with a valid year has not produced a
\* result that carries the prediction 0.
C7_Claimed ==
  (~isLoading /\ Len(data) = 0 /\ pc = "idle"
     /\ result # <<>> /\ result[1].error # InvalidYearError) =>
    /\ error # "null"
    /\ result[1].prediction # Num(0)

====
